---- MODULE Spec2Model ----
(***************************************************************************)
(* plot-energy (src/main.py): interpolation of sparse cumulative meter     *)
(* readings into daily usage, the annual consumption estimate and the      *)
(* alignment of the weather series.                                        *)
(*                                                                         *)
(* A calendar date is an integer day number.  A Python float is a binary   *)
(* floating-point number with MantBits significant bits, held as an        *)
(* integer count of quanta (1 = 2^QuantumBits quanta; the quantum is the   *)
(* smallest subnormal step).  Every float operation rounds its exact       *)
(* result to the nearest representable number, ties to even, as IEEE-754   *)
(* arithmetic does in CPython.                                             *)
(***************************************************************************)
EXTENDS Integers, Sequences, FiniteSets

VARIABLES readings, weathers, dstDay, pc, ret

vars == <<readings, weathers, dstDay, pc, ret>>

----------------------------------------------------------------------------
(* Bounds of the model *)

\* significant bits of a float (53 in CPython)
MantBits == 8

\* 1.0 is 2^QuantumBits quanta
QuantumBits == 17

\* short stores hold readings on days 0..MaxDay
MaxDay == 4

\* a store holds 1..MaxReadings readings
MaxReadings == 3

\* long stores end on day YearDays .. YearDays + MaxExtra
MaxExtra == 3

\* first day on which local clocks are one hour ahead (daylight saving)
DstStart == 2

\* a weather sequence holds 0..MaxWeathers samples
MaxWeathers == 2

(* Program constants *)

\* timedelta(days=365)
YearDays == 365

\* datetime.timestamp(): seconds of a civil day, and of the daylight-saving hour
SecondsPerDay == 86400
SecondsPerHour == 3600

----------------------------------------------------------------------------
(* Float arithmetic *)

Abs(x) == IF x < 0 THEN -x ELSE x

Sign(x) == IF x < 0 THEN -1 ELSE 1

RECURSIVE GCD(_, _)
GCD(a, b) == IF b = 0 THEN a ELSE GCD(b, a % b)

Quantum == 2 ^ QuantumBits

MantLimit == 2 ^ MantBits

\* a / b rounded to the nearest integer, ties to the even one (a >= 0, b > 0)
RoundHalfEven(a, b) ==
    LET q == a \div b
        r == a % b
    IN  IF 2 * r < b THEN q
        ELSE IF 2 * r > b THEN q + 1
        ELSE IF q % 2 = 0 THEN q ELSE q + 1

\* scale n up by at most 2^s while n / d stays below MantLimit: <<n', s'>>
RECURSIVE ShiftUp(_, _, _)
ShiftUp(n, d, s) ==
    IF s > 0 /\ 2 * n < d * MantLimit THEN ShiftUp(2 * n, d, s - 1) ELSE <<n, s>>

\* scale d up until n / d is below MantLimit: <<d', e>>
RECURSIVE ShiftDown(_, _, _)
ShiftDown(n, d, e) ==
    IF n >= d * MantLimit THEN ShiftDown(n, 2 * d, e + 1) ELSE <<d, e>>

\* the float nearest to n * 2^s / d quanta (n >= 0, d > 0, s >= 0)
RoundScaled(n, d, s) ==
    LET up == ShiftUp(n, d, s)
        dn == ShiftDown(up[1], d, up[2])
    IN  RoundHalfEven(up[1], dn[1]) * 2 ^ dn[2]

RECURSIVE TwoExp(_)
TwoExp(a) == IF a # 0 /\ a % 2 = 0 THEN 1 + TwoExp(a \div 2) ELSE 0

OddPart(a) == a \div 2 ^ TwoExp(a)

\* float(i) of a Python int
FromInt(i) == Sign(i) * RoundScaled(Abs(i), 1, QuantumBits)

fadd(a, b) == Sign(a + b) * RoundScaled(Abs(a + b), 1, 0)

fsub(a, b) == fadd(a, -b)

fmul(a, b) ==
    Sign(a) * Sign(b) *
        RoundScaled(OddPart(Abs(a)) * OddPart(Abs(b)), Quantum,
                    TwoExp(Abs(a)) + TwoExp(Abs(b)))

\* int / int: the correctly rounded quotient (d # 0)
fdiv(n, d) ==
    LET g == GCD(Abs(n), Abs(d))
    IN  Sign(n) * Sign(d) * RoundScaled(Abs(n) \div g, Abs(d) \div g, QuantumBits)

----------------------------------------------------------------------------
(* Results of a call: a value or the exception it raises *)

Val(x) == [kind |-> "value", val |-> x]

Raise(e) == [kind |-> e, val |-> 0]

IsVal(r) == r.kind = "value"

----------------------------------------------------------------------------
(* src/main.py *)

\* mutant: progress by floor division (//) instead of true division
interpolate_floordiv(first, second, current, data_first, data_second) ==
    IF second - first = 0 THEN Raise("ZeroDivisionError")
    ELSE LET progress == FromInt((current - first) \div (second - first))
         IN  Val(fadd(data_first, fmul(fsub(data_second, data_first), progress)))

interpolate(first, second, current, data_first, data_second) ==
    IF second - first = 0 THEN Raise("ZeroDivisionError")
    ELSE LET progress == fdiv(current - first, second - first)
         IN  Val(fadd(data_first, fmul(fsub(data_second, data_first), progress)))

\* local midnight of the day as a POSIX timestamp; dstDay = 0: no daylight saving
ts(day) ==
    day * SecondsPerDay
        - (IF dstDay # 0 /\ day >= dstDay THEN SecondsPerHour ELSE 0)

\* Reading.get: the field as a float (an int converts exactly below 2^MantBits)
get(r, energy) == IF energy = "electricity" THEN FromInt(r.electricity) ELSE r.gas

first_at == readings[1].at

last_at == readings[Len(readings)].at

Min(S) == CHOOSE x \in S : \A y \in S : x <= y

\* list.index(x): the first position holding an equal element
index(x) == Min({i \in 1..Len(readings) : readings[i] = x})

\* self.readings[i - 1] of a 0-based i: Python wraps -1 to the last element
before(i) == IF i = 1 THEN readings[Len(readings)] ELSE readings[i - 1]

\* mutant: the assertion checks the lower bound only
reading_unbounded(at, energy) ==
    IF ~(first_at <= at) THEN Raise("AssertionError")
    ELSE IF at = first_at THEN Val(get(readings[1], energy))
    ELSE LET later == {i \in 1..Len(readings) : at <= readings[i].at}
         IN  IF later = {} THEN Raise("StopIteration")
             ELSE LET second_reading == readings[Min(later)]
                      first_reading == before(index(second_reading))
                  IN  interpolate(ts(first_reading.at), ts(second_reading.at), ts(at),
                                  get(first_reading, energy),
                                  get(second_reading, energy))

reading(at, energy) ==
    IF ~(first_at <= at /\ at <= last_at) THEN Raise("AssertionError")
    ELSE IF at = first_at THEN Val(get(readings[1], energy))
    ELSE LET later == {i \in 1..Len(readings) : at <= readings[i].at}
         IN  IF later = {} THEN Raise("StopIteration")
             ELSE LET second_reading == readings[Min(later)]
                      first_reading == before(index(second_reading))
                  IN  interpolate(ts(first_reading.at), ts(second_reading.at), ts(at),
                                  get(first_reading, energy),
                                  get(second_reading, energy))

\* a - b of two calls, the first exception raised propagating
Minus(a, b) ==
    IF ~IsVal(a) THEN a ELSE IF ~IsVal(b) THEN b ELSE Val(fsub(a.val, b.val))

usage(at, energy) ==
    IF ~(first_at < at /\ at <= last_at) THEN Raise("AssertionError")
    ELSE Minus(reading(at, energy), reading(at - 1, energy))

\* Data.dates: every day after the first reading's through the last reading's
dates ==
    IF last_at > first_at THEN [i \in 1..(last_at - first_at) |-> first_at + i]
    ELSE <<>>

\* mutant: the walk starts on the first reading's own date
usage_dates_from_first == <<first_at>> \o dates

\* Data.usage_dates: self.dates[1:]
usage_dates == IF dates = <<>> THEN <<>> ELSE Tail(dates)

\* list(generator) over usage_dates: the first exception raised ends the call
usages(energy) ==
    LET each == [i \in 1..Len(usage_dates) |-> usage(usage_dates[i], energy)]
        bad  == {i \in 1..Len(each) : ~IsVal(each[i])}
    IN  IF bad # {} THEN each[Min(bad)]
        ELSE Val([i \in 1..Len(each) |-> each[i].val])

electricity_usages == usages("electricity")

gas_usages == usages("gas")

average_annual_electricity_consumption ==
    IF usage_dates = <<>> THEN Raise("IndexError")
    ELSE LET start == usage_dates[1]
             end == start + YearDays
             electricity_start == reading(start, "electricity")
             electricity_end == reading(end, "electricity")
         IN  IF ~IsVal(electricity_start) THEN electricity_start
             ELSE Minus(electricity_end, electricity_start)

average_annual_gas_consumption ==
    IF usage_dates = <<>> THEN Raise("IndexError")
    ELSE LET start == usage_dates[1]
             end == start + YearDays
             gas_start == reading(start, "gas")
             gas_end == reading(end, "gas")
         IN  IF ~IsVal(gas_start) THEN gas_start
             ELSE Minus(gas_end, gas_start)

\* mutant: the last reading's date is excluded
in_range_exclusive(weather) == first_at <= weather.at /\ weather.at < last_at

in_range(weather) == first_at <= weather.at /\ weather.at <= last_at

temperature_dates ==
    LET kept == SelectSeq(weathers, in_range)
    IN  [i \in 1..Len(kept) |-> kept[i].at]

air_means ==
    LET kept == SelectSeq(weathers, in_range)
    IN  [i \in 1..Len(kept) |-> kept[i].air_mean]

\* the module-level try/except: both estimates printed, or the
\* "Insufficient data" message on AssertionError; any other exception is
\* not caught and ends the script
annual_report ==
    LET e == average_annual_electricity_consumption
        g == average_annual_gas_consumption
    IN  IF IsVal(e) /\ IsVal(g) THEN Val(<<e.val, g.val>>)
        ELSE LET raised == IF ~IsVal(e) THEN e ELSE g
             IN  IF raised.kind = "AssertionError"
                 THEN [kind |-> "insufficient", val |-> 0]
                 ELSE raised

----------------------------------------------------------------------------
(* Inputs *)

Energies == {"electricity", "gas"}

\* 1/64 in quanta
GasUnit == Quantum \div 64

\* (electricity, gas) of a reading: ints below 2^MantBits, which convert to
\* float exactly as Python ints below 2^53 do, and floats in 64ths
Samples ==
    { [electricity |-> 3, gas |-> 3 * GasUnit],
      [electricity |-> 7, gas |-> 100 * GasUnit],
      [electricity |-> 12, gas |-> 262 * GasUnit] }

MkReading(d, s) == [at |-> d, electricity |-> s.electricity, gas |-> s.gas]

ReadingsOn(days) == {MkReading(d, s) : d \in days, s \in Samples}

\* the rows of data.tsv are in strictly ascending date order
Ascending(rs) == \A i \in 1..(Len(rs) - 1) : rs[i].at < rs[i + 1].at

\* stores of readings a few days apart
ShortStores ==
    UNION { {rs \in [1..n -> ReadingsOn(0..MaxDay)] : Ascending(rs)} :
            n \in 1..MaxReadings }

\* stores of two readings about a year apart
LongStores ==
    { <<MkReading(0, s1), MkReading(YearDays + x, s2)>> :
      s1 \in Samples, s2 \in Samples, x \in 0..MaxExtra }

Stores == ShortStores \cup LongStores

AirMeans == {9 * GasUnit, 5 * GasUnit}

WeatherSamples ==
    {[at |-> d, air_mean |-> m] : d \in {0, 2, MaxDay + 1}, m \in AirMeans}

WeatherSeqs == UNION {[1..n -> WeatherSamples] : n \in 0..MaxWeathers}

DefaultWeathers ==
    << [at |-> MaxDay + 1, air_mean |-> 9 * GasUnit],
       [at |-> 2, air_mean |-> 5 * GasUnit],
       [at |-> 0, air_mean |-> 9 * GasUnit] >>

\* stores of the weather specification: every pair of bounds, one sample
WeatherStores ==
    {rs \in ShortStores :
        Len(rs) <= 2 /\ \A i \in 1..Len(rs) : rs[i].electricity = 3}

\* the dates a caller asks about: around the first and the last reading
QueryDays ==
    ((first_at - 1)..(first_at + MaxDay + 1)) \cup ((last_at - 1)..(last_at + 1))

----------------------------------------------------------------------------
(* The state machine: a caller makes one call at a time on the frozen Data *)

NoCall ==
    [op |-> "none", at |-> 0, energy |-> "", kind |-> "", val |-> 0, vals |-> <<>>]

\* a call that returns a number
Called(op, at, energy, r) ==
    [op |-> op, at |-> at, energy |-> energy, kind |-> r.kind, val |-> r.val,
     vals |-> <<>>]

\* a call that returns a list
CalledList(op, energy, r) ==
    [op |-> op, at |-> 0, energy |-> energy, kind |-> r.kind, val |-> 0,
     vals |-> IF IsVal(r) THEN r.val ELSE <<>>]

Returns(r) ==
    /\ pc = "idle"
    /\ pc' = "returned"
    /\ ret' = r
    /\ UNCHANGED <<readings, weathers, dstDay>>

Init ==
    /\ readings \in Stores
    /\ weathers = DefaultWeathers
    /\ dstDay \in {0, DstStart}
    /\ pc = "idle"
    /\ ret = NoCall

InitWeather ==
    /\ readings \in WeatherStores
    /\ weathers \in WeatherSeqs
    /\ dstDay = 0
    /\ pc = "idle"
    /\ ret = NoCall

CallReading ==
    \E at \in QueryDays, energy \in Energies :
        Returns(Called("reading", at, energy, reading(at, energy)))

CallUsage ==
    \E at \in QueryDays, energy \in Energies :
        Returns(Called("usage", at, energy, usage(at, energy)))

CallAnnualElectricity ==
    Returns(Called("average_annual_electricity_consumption", 0, "electricity",
                   average_annual_electricity_consumption))

CallAnnualGas ==
    Returns(Called("average_annual_gas_consumption", 0, "gas",
                   average_annual_gas_consumption))

CallUsageDates == Returns(CalledList("usage_dates", "", Val(usage_dates)))

CallElectricityUsages ==
    Returns(CalledList("electricity_usages", "electricity", electricity_usages))

CallGasUsages == Returns(CalledList("gas_usages", "gas", gas_usages))

CallTemperatureDates ==
    Returns(CalledList("temperature_dates", "", Val(temperature_dates)))

CallAirMeans == Returns(CalledList("air_means", "", Val(air_means)))

RunAnnualReport == Returns(CalledList("annual_report", "", annual_report))

\* the caller takes the result; the Data is unchanged and may be asked again
Return ==
    /\ pc = "returned"
    /\ pc' = "idle"
    /\ ret' = NoCall
    /\ UNCHANGED <<readings, weathers, dstDay>>

Next ==
    \/ CallReading
    \/ CallUsage
    \/ CallAnnualElectricity
    \/ CallAnnualGas
    \/ CallUsageDates
    \/ CallElectricityUsages
    \/ CallGasUsages
    \/ CallTemperatureDates
    \/ CallAirMeans
    \/ RunAnnualReport
    \/ Return

Spec == Init /\ [][Next]_vars

SpecWeather == InitWeather /\ [][Next]_vars

----------------------------------------------------------------------------
(* Properties *)

Returned(op) == pc = "returned" /\ ret.op = op

\* the days d with lo < d <= hi, ascending
DaysAfter(lo, hi) == [i \in 1..(IF hi > lo THEN hi - lo ELSE 0) |-> lo + i]

\* position of the earliest reading dated at or after the day
Bracket(at) == Min({i \in 1..Len(readings) : at <= readings[i].at})

\* C1: with two or more readings sorted strictly ascending, usage_dates is
\* exactly the days d with first.at < d <= last.at, ascending, one entry per
\* day: (last.at - first.at).days entries.
C1_UsageDatesDense ==
    (Returned("usage_dates") /\ Len(readings) >= 2)
        => /\ ret.vals = DaysAfter(first_at, last_at)
           /\ Len(ret.vals) = last_at - first_at

\* C2: reading(r.at, field) returns the stored field value of every stored
\* reading r exactly, for both fields, and never divides by zero.
C2_ExactAtStoredDates ==
    Returned("reading")
        => \A i \in 1..Len(readings) :
               readings[i].at = ret.at
                   => /\ ret.kind = "value"
                      /\ ret.val = get(readings[i], ret.energy)

\* C3: reading(d) raises the range violation exactly for d outside
\* [first.at, last.at] and returns a value inside; usage(d) raises it exactly
\* for d outside (first.at, last.at], d = first.at included, and returns a
\* value inside.
C3_RangeViolation ==
    /\ Returned("reading")
           => ret.kind = (IF first_at <= ret.at /\ ret.at <= last_at
                          THEN "value" ELSE "AssertionError")
    /\ Returned("usage")
           => ret.kind = (IF first_at < ret.at /\ ret.at <= last_at
                          THEN "value" ELSE "AssertionError")

C3_Witness ==
    /\ Returned("usage")
    /\ Len(readings) >= 2
    /\ ret.at = first_at
    /\ ret.kind = "AssertionError"

\* the store spans a full year from the first usable date, first.at + 1 day
SpansYear == first_at + 1 + YearDays <= last_at

\* C4: for every store that does not span 365 days from the first usable
\* date, asking for the annual estimates ends in the insufficient-data
\* outcome: no number and no other failure.
C4_InsufficientIsGraceful ==
    (Returned("annual_report") /\ ~SpansYear) => ret.kind = "insufficient"

Annual(op) ==
    op \in {"average_annual_electricity_consumption",
            "average_annual_gas_consumption"}

\* C5: the failure of the annual estimate on a store that is too short is of
\* another kind than the range violation reading raises for a date outside
\* the store.
C5_DistinctFailureKinds ==
    (pc = "returned" /\ Annual(ret.op) /\ ret.kind # "value")
        => ret.kind # reading(last_at + 1, ret.energy).kind

\* C6: the annual estimate uses start = first.at + 1 day and end = start + 365
\* days; it returns reading(end) - reading(start) whenever end <= last.at and
\* fails only when end > last.at.
C6_AnnualWindow ==
    (pc = "returned" /\ Annual(ret.op))
        => LET start == first_at + 1
               end == start + YearDays
           IN  IF end <= last_at
               THEN /\ ret.kind = "value"
                    /\ ret.val = Minus(reading(end, ret.energy),
                                       reading(start, ret.energy)).val
               ELSE ret.kind # "value"

\* the weather records dated within the store's bounds, in their order
RECURSIVE Within(_)
Within(ws) ==
    IF ws = <<>> THEN <<>>
    ELSE (IF first_at <= Head(ws).at /\ Head(ws).at <= last_at
          THEN <<Head(ws)>> ELSE <<>>) \o Within(Tail(ws))

\* C7: for any weather sequence, in any order, temperature_dates and
\* air_means are the dates and the means of exactly the records with
\* first.at <= at <= last.at, in their original order, index by index.
C7_WeatherAligned ==
    LET kept == Within(weathers)
    IN  /\ Returned("temperature_dates")
               => /\ ret.vals = [i \in 1..Len(kept) |-> kept[i].at]
                  /\ Len(ret.vals) = Len(air_means)
        /\ Returned("air_means")
               => /\ ret.vals = [i \in 1..Len(kept) |-> kept[i].air_mean]
                  /\ Len(ret.vals) = Len(temperature_dates)

C7_Witness ==
    /\ Returned("air_means")
    /\ Len(weathers) >= 2
    /\ weathers[1].at > weathers[2].at
    /\ Len(ret.vals) = 1
    /\ \E i \in 1..Len(weathers) : weathers[i].at = last_at

\* C8: electricity_usages and gas_usages have the length of usage_dates,
\* entry i is reading(usage_dates[i]) - reading(usage_dates[i] - 1 day), and
\* building them never raises: every date queried is in the valid domain.
C8_UsagesAligned ==
    (pc = "returned" /\ ret.op \in {"electricity_usages", "gas_usages"})
        => /\ ret.kind = "value"
           /\ Len(ret.vals) = Len(usage_dates)
           /\ \A i \in 1..Len(usage_dates) :
                  LET d == usage_dates[i]
                      today == reading(d, ret.energy)
                      yesterday == reading(d - 1, ret.energy)
                  IN  /\ first_at <= d - 1 /\ d <= last_at
                      /\ IsVal(today) /\ IsVal(yesterday)
                      /\ ret.vals[i] = fsub(today.val, yesterday.val)

C8_Witness ==
    /\ Returned("gas_usages")
    /\ Len(readings) = 3
    /\ ret.kind = "value"
    /\ Len(ret.vals) >= 2

\* C9: for first.at < d <= last.at the bracket of d is the earliest reading
\* dated at or after d and its predecessor, and when their values are
\* v0 <= v1 the value returned lies in [v0, v1].
C9_WithinBracket ==
    (Returned("reading") /\ first_at < ret.at /\ ret.at <= last_at)
        => LET j == Bracket(ret.at)
               v0 == get(readings[j - 1], ret.energy)
               v1 == get(readings[j], ret.energy)
           IN  /\ ret.kind = "value"
               /\ v0 <= v1 => (v0 <= ret.val /\ ret.val <= v1)

\* every day between the two readings has SecondsPerDay seconds
EqualDays == ts(last_at) - ts(first_at) = (last_at - first_at) * SecondsPerDay

\* the spacing of the floats around x
RECURSIVE Ulp(_)
Ulp(x) == IF Abs(x) < MantLimit THEN 1 ELSE 2 * Ulp(Abs(x) \div 2)

Larger(a, b) == IF Abs(a) >= Abs(b) THEN Abs(a) ELSE Abs(b)

\* C10 as stated: with exactly two readings n equal days apart,
\* reading(first.at + k days) equals v0 + (v1 - v0) * k / n and every usage
\* equals (v1 - v0) / n.
C10_LinearShareExact ==
    (pc = "returned" /\ Len(readings) = 2 /\ EqualDays /\ ret.kind = "value")
        => LET n == last_at - first_at
               k == ret.at - first_at
               v0 == get(readings[1], ret.energy)
               v1 == get(readings[2], ret.energy)
           IN  /\ ret.op = "reading" => ret.val * n = v0 * n + (v1 - v0) * k
               /\ ret.op = "usage" => ret.val * n = v1 - v0

\* C10 as amended: the same up to the rounding of the float operations:
\* reading is within 5, and usage within 11, units in the last place of the
\* larger of |v0| and |v1|.
C10_LinearShareRounded ==
    (pc = "returned" /\ Len(readings) = 2 /\ EqualDays /\ ret.kind = "value")
        => LET n == last_at - first_at
               k == ret.at - first_at
               v0 == get(readings[1], ret.energy)
               v1 == get(readings[2], ret.energy)
               u == Ulp(Larger(v0, v1))
           IN  /\ ret.op = "reading"
                      => Abs(ret.val * n - (v0 * n + (v1 - v0) * k)) <= 5 * u * n
               /\ ret.op = "usage"
                      => Abs(ret.val * n - (v1 - v0)) <= 11 * u * n

C10_Witness ==
    /\ Returned("usage")
    /\ Len(readings) = 2
    /\ EqualDays
    /\ ret.kind = "value"
    /\ last_at - first_at >= 3
    /\ ret.val * (last_at - first_at)
           # get(readings[2], ret.energy) - get(readings[1], ret.energy)

====
